---- MODULE Spec2Model ----
(***************************************************************************)
(* Model of the CCS logging application (anabathalen/ccslogging).          *)
(*                                                                         *)
(* The repository holds two data entry pages,                              *)
(*   "pages": src/pages/data_entry.py (multi-record batch, committed by    *)
(*            "Submit All"; the page src/app.py imports)                   *)
(*   "root":  src/data_entry.py (one record per form submission,           *)
(*            committed at once)                                           *)
(* and two modules with the host functions the pages import by the name    *)
(* utils.github_utils (get_existing_data, update_csv_in_github),           *)
(*   "utils": src/utils/github_utils.py                                    *)
(*   "root":  src/github_utils.py                                          *)
(* A deployment has one page and one module.  Every browser session runs   *)
(* the script on its own session_state; the sessions share one CSV file    *)
(* on the content host.                                                    *)
(* A session is sequential; the host calls of different sessions           *)
(* interleave, so every host call is one step of the model.                *)
(***************************************************************************)
EXTENDS Integers, Sequences, FiniteSets, TLC

\* ------------------------------------------------------------------ bounds
\* commit requests one session may make
MaxCommits == 2
\* records one session may hold in its batch
MaxBatch == 2
\* rows of a table the duplicate check is called on
MaxRows == 2

Sessions == {"s1", "s2"}
Apps == {"pages", "root"}
Libs == {"utils", "root"}

\* ------------------------------------------------------------------ values
\* a missing cell of a DataFrame (None / NaN)
NaN == "NaN"
\* a session_state key that is not set
Unset == "<unset>"

\* DOI strings a user may type: two well-formed ones and a malformed one
ValidDois == {"10.1000/a", "10.1000/b"}
Dois == ValidDois \cup {"doi:bad"}
\* protein / molecule names a user may type (the text input may stay empty)
Names == {"A", ""}

\* the widgets of the protein form of pages/data_entry.py as a user left
\* them: BaseForm, and the forms that differ from it in one group of widgets
BaseForm ==
  [protein_name |-> "A",
   instrument |-> "Waters Synapt",
   ims_type |-> "TWIMS",
   drift_gas |-> "Nitrogen",
   drift_gas_text |-> "",
   sequence_mass_value |-> 0,
   measured_mass_value |-> 0,
   subunit_count |-> 1,
   oligomer_type |-> "",
   num_ccs_values |-> 1,
   ccs_widgets |-> <<<<1, 1500>>, <<2, 1600>>>>]

\* the form of the workflow specification (what a form may hold is the
\* matter of the entry specification)
Forms == {BaseForm}

AllForms ==
  Forms
  \cup {[BaseForm EXCEPT !.protein_name = n] : n \in Names \cup {"B", " "}}
  \cup {[BaseForm EXCEPT !.instrument = "Other (enter)"],
        [BaseForm EXCEPT !.ims_type = "Other (enter)"]}
  \cup {[BaseForm EXCEPT !.drift_gas = "Other", !.drift_gas_text = t] : t \in {"", "Xenon"}}
  \cup {[BaseForm EXCEPT !.sequence_mass_value = 66430],
        [BaseForm EXCEPT !.measured_mass_value = 66432]}
  \cup {[BaseForm EXCEPT !.subunit_count = c, !.oligomer_type = o] :
          c \in {1, 2}, o \in {"", "Homo-oligomer"}}
  \cup {[BaseForm EXCEPT !.num_ccs_values = 2]}

\* the widgets of the form of data_entry.py
RootBaseForm ==
  [paper_title |-> "T",
   authors |-> "X",
   molecule |-> "A",
   ccs_value |-> 1,
   buffer_gas |-> "He",
   buffer_gas_text |-> "",
   method |-> "TIMS",
   method_text |-> ""]

RootForms ==
  {[RootBaseForm EXCEPT !.molecule = m, !.ccs_value = c] : m \in Names, c \in {0, 1}}

AllRootForms ==
  RootForms
  \cup {[RootBaseForm EXCEPT !.paper_title = ""], [RootBaseForm EXCEPT !.authors = ""]}
  \cup {[RootBaseForm EXCEPT !.buffer_gas = "Other", !.buffer_gas_text = t] : t \in {"", "Xe"}}
  \cup {[RootBaseForm EXCEPT !.method = "Other", !.method_text = "IM-MS"]}

\* ------------------------------------------------------------- CSV file
\* The file on the content host.  blank: the file exists and holds no
\* header line (zero bytes), which pandas.read_csv refuses to parse.
NoFile == [exists |-> FALSE, blank |-> FALSE, rows |-> <<>>]
BlankFile == [exists |-> TRUE, blank |-> TRUE, rows |-> <<>>]
Table(rows) == [exists |-> TRUE, blank |-> FALSE, rows |-> rows]

\* DataFrame.to_csv: a missing value (None, NaN) is written as an empty cell
ToCsvCell(v) == IF v = NaN THEN "" ELSE v
\* pandas.read_csv: an empty cell is read as NaN
ReadCsvCell(c) == IF c = "" THEN NaN ELSE c

\* the columns that hold text
TextColumns ==
  {"doi", "protein_name", "instrument", "ims_type", "drift_gas", "oligomer_type",
   "paper_title", "authors", "molecule", "buffer_gas", "method"}

\* a Python list (the ccs_data of a protein entry)
PyList(items) == [type |-> "list", items |-> items]
\* DataFrame.to_csv writes a list cell as its text str(list); read_csv reads
\* the text back as a string, not as a list
ToCsvList(v) == [v EXCEPT !.type = "str"]

\* number cells (masses, counts, ccs_value) and the origin tag are written and
\* read back as they are; a missing number is [set |-> FALSE]
ToCsvColumn(k, v) ==
  IF k \in TextColumns THEN ToCsvCell(v)
  ELSE IF k = "ccs_data" THEN ToCsvList(v)
  ELSE v
ReadCsvColumn(k, c) == IF k \in TextColumns THEN ReadCsvCell(c) ELSE c

\* a row is a record of its columns; a column a row does not have stands for
\* the empty cell the row has in a file whose other rows have the column
ToCsvRow(r) == [k \in DOMAIN r |-> ToCsvColumn(k, r[k])]
ReadCsvRow(r) == [k \in DOMAIN r |-> ReadCsvColumn(k, r[k])]

\* updated_df.to_csv(index=False): the text written to the host
to_csv(df) == Table([i \in 1..Len(df) |-> ToCsvRow(df[i])])
\* pd.read_csv(StringIO(content)) of a file that parses
read_csv(f) == [i \in 1..Len(f.rows) |-> ReadCsvRow(f.rows[i])]
\* pd.concat([existing, new], ignore_index=True)
concat(existing, new) == existing \o new

\* ------------------------------------------------------------------ state
VARIABLES
  app,            \* the deployed data entry page
  lib,            \* the deployed github_utils module
  file,           \* the CSV file on the content host
  session_state,  \* st.session_state of every session
  pc,             \* where each session's update_csv_in_github stands
  local,          \* the locals of each session's update_csv_in_github
  result,         \* what the commit of the session's latest run returned
  ncommit,        \* commit requests each session has made
  failed,         \* what failed in the session's latest commit: host calls
                  \* ("error", "conflict", "exists") and pd.read_csv ("parse")
  calls,          \* host calls the session's latest commit has made
  before,         \* session_state as the latest run of the script found it
  call            \* the latest call of a function of the page taken alone:
                  \* its name, its arguments and what it returned

vars ==
  <<app, lib, file, session_state, pc, local, result, ncommit, failed, calls,
    before, call>>

\* ------------------------------------------------------- content host
\* repo.get_contents(path): the content and its sha, or 404, or a failure
\* of the transport (fault).  The blob sha names the content, so the
\* content itself stands for it.
get_contents(f, fault) ==
  IF fault THEN [status |-> "error", content |-> NoFile]
  ELSE IF ~f.exists THEN [status |-> "not_found", content |-> NoFile]
  ELSE [status |-> "ok", content |-> f]

\* repo.update_file(path, message, content, sha): replaces the content when
\* sha names the current blob
update_file(f, content, sha, fault) ==
  IF fault THEN [status |-> "error", file |-> f]
  ELSE IF ~f.exists THEN [status |-> "not_found", file |-> f]
  ELSE IF sha # f THEN [status |-> "conflict", file |-> f]
  ELSE [status |-> "ok", file |-> content]

\* repo.create_file(path, message, content): creates the file when the path
\* is free
create_file(f, content, fault) ==
  IF fault THEN [status |-> "error", file |-> f]
  ELSE IF f.exists THEN [status |-> "exists", file |-> f]
  ELSE [status |-> "ok", file |-> content]

\* ------------------------------------------------ reading the table
\* utils/github_utils.py get_existing_data: every exception (404, transport,
\* a file that does not parse) ends in an empty DataFrame
utils_get_existing_data(f, fault) ==
  LET r == get_contents(f, fault)
  IN IF r.status = "ok" /\ ~r.content.blank
     THEN [ok |-> TRUE, df |-> read_csv(r.content)]
     ELSE [ok |-> TRUE, df |-> <<>>]

\* github_utils.py get_existing_data: 404 is an empty DataFrame, any other
\* failure is None (ok = FALSE)
root_get_existing_data(f, fault) ==
  LET r == get_contents(f, fault)
  IN IF r.status = "ok" /\ ~r.content.blank
     THEN [ok |-> TRUE, df |-> read_csv(r.content)]
     ELSE IF r.status = "not_found"
     THEN [ok |-> TRUE, df |-> <<>>]
     ELSE [ok |-> FALSE, df |-> <<>>]

get_existing_data(l, f, fault) ==
  IF l = "utils" THEN utils_get_existing_data(f, fault)
  ELSE root_get_existing_data(f, fault)

\* --------------------------------------------------------- validate_doi
Digits == {"0", "1", "2", "3", "4", "5", "6", "7", "8", "9"}
Letters == {"a", "b", "c", "d", "e", "f", "g", "h", "i", "j", "k", "l", "m",
            "n", "o", "p", "q", "r", "s", "t", "u", "v", "w", "x", "y", "z",
            "A", "B", "C", "D", "E", "F", "G", "H", "I", "J", "K", "L", "M",
            "N", "O", "P", "Q", "R", "S", "T", "U", "V", "W", "X", "Y", "Z"}
\* a character that is not ASCII is written as its Python escape: "\\u0661"
\* is ARABIC-INDIC DIGIT ONE.
\* \d of a str pattern: every Unicode decimal digit (category Nd); of the
\* 650 that are not ASCII the model keeps the ARABIC-INDIC digits 1 to 4
DecimalDigits == Digits \cup {"\\u0661", "\\u0662", "\\u0663", "\\u0664"}
\* the letters outside ASCII that re.IGNORECASE folds into A-Z: LATIN
\* CAPITAL LETTER I WITH DOT ABOVE, LATIN SMALL LETTER DOTLESS I, LATIN
\* SMALL LETTER LONG S, KELVIN SIGN
FoldedLetters == {"\\u0130", "\\u0131", "\\u017f", "\\u212a"}
\* the class [-._;()/:A-Z0-9] under re.IGNORECASE
SuffixChars ==
  {"-", ".", "_", ";", "(", ")", "/", ":"} \cup Letters \cup FoldedLetters \cup Digits

\* the characters of the strings a user may type
Chars(doi) ==
  CASE doi = "10.1000/a" -> <<"1", "0", ".", "1", "0", "0", "0", "/", "a">>
    [] doi = "10.1000/b" -> <<"1", "0", ".", "1", "0", "0", "0", "/", "b">>
    [] doi = "doi:bad" -> <<"d", "o", "i", ":", "b", "a", "d">>
    [] doi = "" -> <<>>
    [] doi = "10.1000a" -> <<"1", "0", ".", "1", "0", "0", "0", "a">>
    [] doi = "10x1000/a" -> <<"1", "0", "x", "1", "0", "0", "0", "/", "a">>
    [] doi = "10.abcd/a" -> <<"1", "0", ".", "a", "b", "c", "d", "/", "a">>
    [] doi = "10.100/a" -> <<"1", "0", ".", "1", "0", "0", "/", "a">>
    [] doi = "10.123456789/a" ->
         <<"1", "0", ".", "1", "2", "3", "4", "5", "6", "7", "8", "9", "/", "a">>
    [] doi = "10.1234567890/a" ->
         <<"1", "0", ".", "1", "2", "3", "4", "5", "6", "7", "8", "9", "0", "/", "a">>
    [] doi = "10.1000/" -> <<"1", "0", ".", "1", "0", "0", "0", "/">>
    [] doi = "10.1000/a b" ->
         <<"1", "0", ".", "1", "0", "0", "0", "/", "a", " ", "b">>
    [] doi = "x10.1000/a" ->
         <<"x", "1", "0", ".", "1", "0", "0", "0", "/", "a">>
    [] doi = " 10.1000/a" ->
         <<" ", "1", "0", ".", "1", "0", "0", "0", "/", "a">>
    [] doi = "10.1000/a " ->
         <<"1", "0", ".", "1", "0", "0", "0", "/", "a", " ">>
    [] doi = "10.1000/A-b_c;(d)/e:9.f" ->
         <<"1", "0", ".", "1", "0", "0", "0", "/", "A", "-", "b", "_", "c", ";", "(", "d", ")", "/", "e", ":", "9", ".", "f">>
    [] doi = "10.1000/a\n" ->
         <<"1", "0", ".", "1", "0", "0", "0", "/", "a", "\n">>
    [] doi = "10.1000/a\n\n" ->
         <<"1", "0", ".", "1", "0", "0", "0", "/", "a", "\n", "\n">>
    [] doi = "10.1000/\n" -> <<"1", "0", ".", "1", "0", "0", "0", "/", "\n">>
    [] doi = "10.1000/a\nb" ->
         <<"1", "0", ".", "1", "0", "0", "0", "/", "a", "\n", "b">>
    [] doi = "10.1000/a\r" ->
         <<"1", "0", ".", "1", "0", "0", "0", "/", "a", "\r">>
    [] doi = "10.1000/a\t" ->
         <<"1", "0", ".", "1", "0", "0", "0", "/", "a", "\t">>
    [] doi = "10.\\u0661\\u0662\\u0663\\u0664/a" ->
         <<"1", "0", ".", "\\u0661", "\\u0662", "\\u0663", "\\u0664", "/", "a">>
    [] doi = "10.1000/\\u0661" ->
         <<"1", "0", ".", "1", "0", "0", "0", "/", "\\u0661">>
    [] doi = "10.1000/\\u212a" ->
         <<"1", "0", ".", "1", "0", "0", "0", "/", "\\u212a">>
    [] doi = "10.1000/\\u017f" ->
         <<"1", "0", ".", "1", "0", "0", "0", "/", "\\u017f">>
    [] doi = "10.1000/\\u0130" ->
         <<"1", "0", ".", "1", "0", "0", "0", "/", "\\u0130">>
    [] doi = "10.1000/\\u0131" ->
         <<"1", "0", ".", "1", "0", "0", "0", "/", "\\u0131">>
    [] doi = "10.1000/\\u00e9" ->
         <<"1", "0", ".", "1", "0", "0", "0", "/", "\\u00e9">>
    [] OTHER -> <<>>

\* strings of every shape the pattern tells apart, next to Dois
AllDois ==
  Dois \cup
  {"", "10.1000a", "10x1000/a", "10.abcd/a", "10.100/a", "10.123456789/a",
   "10.1234567890/a", "10.1000/", "10.1000/a b", "x10.1000/a",
   " 10.1000/a", "10.1000/a ", "10.1000/A-b_c;(d)/e:9.f", "10.1000/a\n",
   "10.1000/a\n\n", "10.1000/\n", "10.1000/a\nb", "10.1000/a\r",
   "10.1000/a\t", "10.\\u0661\\u0662\\u0663\\u0664/a", "10.1000/\\u0661",
   "10.1000/\\u212a", "10.1000/\\u017f", "10.1000/\\u0130",
   "10.1000/\\u0131", "10.1000/\\u00e9"}

\* re.match(r'^10\.\d{4,9}/[-._;()/:A-Z0-9]+$', doi, re.IGNORECASE) on the
\* characters cs; "$" also matches before one trailing newline
MatchDoi(cs) ==
  LET n == IF Len(cs) > 0 /\ cs[Len(cs)] = "\n" THEN Len(cs) - 1 ELSE Len(cs)
  IN \E k \in 4..9 :
       /\ n >= 3 + k + 2
       /\ cs[1] = "1" /\ cs[2] = "0" /\ cs[3] = "."
       /\ \A i \in 4..(3 + k) : cs[i] \in DecimalDigits
       /\ cs[4 + k] = "/"
       /\ \A i \in (5 + k)..n : cs[i] \in SuffixChars

validate_doi(doi) == MatchDoi(Chars(doi))

\* mutant: only the first row of the table is looked at
check_doi_exists_first_row(existing_data, doi) ==
  IF ~existing_data.set \/ existing_data.rows = <<>> THEN FALSE
  ELSE existing_data.rows[1].doi = doi

\* check_doi_exists(existing_data, doi): existing_data is None (set = FALSE)
\* or a DataFrame
check_doi_exists(existing_data, doi) ==
  IF ~existing_data.set \/ existing_data.rows = <<>> THEN FALSE
  ELSE \E i \in 1..Len(existing_data.rows) : existing_data.rows[i].doi = doi

\* existing_data[existing_data['doi'] == doi]: the rows the page shows when
\* the paper is in the table already
matching_rows(existing_data, doi) ==
  SelectSeq(existing_data.rows, LAMBDA row : row.doi = doi)

\* what api.crossref.org answers to requests.get: a record of the work; a
\* failure of the request (requests.RequestException: timeout, HTTP error
\* status); or JSON the function does not expect (no "message", an empty
\* "title" or "container-title" list)
CrossRefAnswers == {"record", "request_error", "malformed"}

\* get_paper_details(doi): the CrossRef metadata, of which the model keeps
\* the doi.  A failed request gives the record with empty metadata; an
\* answer it does not expect raises KeyError or IndexError, which the
\* function does not catch (raised)
get_paper_details(doi, answer) ==
  [raised |-> answer = "malformed", details |-> [doi |-> doi]]

\* -------------------------------------------------------- session_state
NoData == [set |-> FALSE, rows |-> <<>>]
NoList == [set |-> FALSE, items |-> <<>>]

\* the keys app.py sets before main(); every other key is not set
InitSession ==
  [github_configured |-> FALSE,
   existing_data |-> NoData,
   show_full_form |-> FALSE,
   new_doi |-> Unset,
   paper_details |-> [doi |-> Unset],
   protein_data |-> NoList]

\* what g.get_repo(repo_name) does: it returns the repository, raises a
\* github.GithubException (unknown repository, bad credentials), or raises
\* another exception (the transport fails)
RepoOutcomes == {"ok", "github_exception", "exception"}

\* get_repository(g, repo_name): utils/github_utils.py catches every
\* Exception and returns None; github_utils.py catches GithubException only,
\* so another exception leaves the function ("raise")
get_repository(l, outcome) ==
  IF outcome = "ok" THEN "repo"
  ELSE IF l = "utils" \/ outcome = "github_exception" THEN "none"
  ELSE "raise"

\* "Test GitHub Connection" of app.py: g and repo_name given (auth_ok), the
\* repository looked up, then the table is loaded.  An exception that
\* leaves get_repository ends the run of the script: no key is written
test_connection(ss, l, f, auth_ok, outcome, fault) ==
  IF ~auth_ok THEN [ss EXCEPT !.github_configured = FALSE]
  ELSE IF get_repository(l, outcome) = "raise" THEN ss
  ELSE IF get_repository(l, outcome) = "none"
  THEN [ss EXCEPT !.github_configured = FALSE]
  ELSE LET existing == get_existing_data(l, f, fault)
       IN [ss EXCEPT !.github_configured = TRUE,
                     !.existing_data =
                        IF existing.ok THEN [set |-> TRUE, rows |-> existing.df]
                        ELSE ss.existing_data]

\* mutant: the format of the DOI is not validated
pages_check_doi_unvalidated(ss, doi, answer) ==
  IF get_paper_details(doi, answer).raised THEN ss
  ELSE IF check_doi_exists(ss.existing_data, doi) THEN ss
  ELSE [ss EXCEPT !.new_doi = doi,
                  !.paper_details = get_paper_details(doi, answer).details,
                  !.show_full_form = TRUE,
                  !.protein_data = [set |-> TRUE, items |-> <<>>]]

\* mutant: a new paper is taken and the batch of the paper before is kept
pages_check_doi_keep_batch(ss, doi, answer) ==
  IF ~validate_doi(doi) THEN ss
  ELSE IF get_paper_details(doi, answer).raised THEN ss
  ELSE IF check_doi_exists(ss.existing_data, doi) THEN ss
  ELSE [ss EXCEPT !.new_doi = doi,
                  !.paper_details = get_paper_details(doi, answer).details,
                  !.show_full_form = TRUE]

\* pages/data_entry.py, "Check DOI": the DOI is validated, the metadata
\* are fetched, then the table is searched.  An exception that leaves
\* get_paper_details ends the run of the script: no key is written
pages_check_doi(ss, doi, answer) ==
  IF ~validate_doi(doi) THEN ss
  ELSE IF get_paper_details(doi, answer).raised THEN ss
  ELSE IF check_doi_exists(ss.existing_data, doi) THEN ss
  ELSE [ss EXCEPT !.new_doi = doi,
                  !.paper_details = get_paper_details(doi, answer).details,
                  !.show_full_form = TRUE,
                  !.protein_data = [set |-> TRUE, items |-> <<>>]]

\* data_entry.py, "Check DOI" (no metadata are fetched)
root_check_doi(ss, doi) ==
  IF ~validate_doi(doi) THEN ss
  ELSE IF check_doi_exists(ss.existing_data, doi) THEN ss
  ELSE [ss EXCEPT !.new_doi = doi, !.show_full_form = TRUE]

\* "Check DOI" of the deployed page
check_doi(a, ss, doi, answer) ==
  IF a = "pages" THEN pages_check_doi(ss, doi, answer) ELSE root_check_doi(ss, doi)

\* a number_input that is stored as None when it is not positive
NoNumber == [set |-> FALSE, value |-> 0]
\* mutant: the number is stored as it was entered, zero too
number_or_none_keep_zero(v) == [set |-> TRUE, value |-> v]
number_or_none(v) == IF v > 0 THEN [set |-> TRUE, value |-> v] ELSE NoNumber

\* pages/data_entry.py: drift_gas of the selectbox, or of the text input
\* "Specify Drift Gas" when the selectbox holds "Other"
pages_drift_gas(form) ==
  IF form.drift_gas = "Other" THEN form.drift_gas_text ELSE form.drift_gas

\* mutant: every pair of number inputs the session holds is taken, whatever
\* num_ccs_values says
ccs_data_all_widgets(form) == PyList(form.ccs_widgets)

\* pages/data_entry.py: ccs_data, one pair of the number inputs charge_i and
\* ccs_i for every i in range(num_ccs_values)
ccs_data(form) == PyList([i \in 1..form.num_ccs_values |-> form.ccs_widgets[i]])

\* pages/data_entry.py, "Ready to Submit This Protein": the entry built from
\* the widgets of the form.  The model keeps these fields of the entry; the
\* others (polarity, uniprot, pdb, sequence, native_measurement,
\* additional_notes) are copied or None-if-empty like the ones kept.
protein_entry(form) ==
  [protein_name |-> form.protein_name,
   instrument |-> form.instrument,
   ims_type |-> form.ims_type,
   drift_gas |-> pages_drift_gas(form),
   sequence_mass |-> number_or_none(form.sequence_mass_value),
   measured_mass |-> number_or_none(form.measured_mass_value),
   subunit_count |-> form.subunit_count,
   oligomer_type |-> IF form.oligomer_type # "" THEN form.oligomer_type ELSE NaN,
   ccs_data |-> ccs_data(form)]

\* the entry is appended to the batch
submit_protein(ss, form) ==
  [ss EXCEPT !.protein_data.items = Append(@, protein_entry(form))]

\* {**paper_details, **protein}: the keys of both, protein's value where
\* both have the key
merge(paper_details, protein) ==
  [k \in DOMAIN paper_details \cup DOMAIN protein |->
     IF k \in DOMAIN protein THEN protein[k] ELSE paper_details[k]]

\* pd.DataFrame(all_proteins): one row per batch entry, the paper details
\* joined with the entry.  origin names the commit request that hands the
\* row over: session, request number, position in the batch, batch size.
all_proteins(ss, s, n) ==
  LET batch == ss.protein_data.items
  IN [i \in 1..Len(batch) |->
        merge(merge(ss.paper_details, batch[i]), [origin |-> <<s, n, i, Len(batch)>>])]

\* data_entry.py: buffer_gas and method of the selectbox, or of the text
\* input when the selectbox holds "Other"
root_buffer_gas(form) ==
  IF form.buffer_gas = "Other" THEN form.buffer_gas_text ELSE form.buffer_gas
root_method(form) ==
  IF form.method = "Other" THEN form.method_text ELSE form.method

\* data_entry.py: the one-row DataFrame of the form.  The model keeps these
\* columns; the others (publication_year, journal, uncertainty, temperature,
\* additional_notes, submission_date) are copied from their widgets.
form_data(ss, s, n, form) ==
  <<[paper_title |-> form.paper_title,
     authors |-> form.authors,
     doi |-> ss.new_doi,
     molecule |-> form.molecule,
     ccs_value |-> form.ccs_value,
     buffer_gas |-> root_buffer_gas(form),
     method |-> root_method(form),
     origin |-> <<s, n, 1, 1>>]>>

\* data_entry.py: the required fields of the form
required_fields_ok(form) ==
  ~(form.paper_title = "" \/ form.authors = "" \/ form.molecule = "" \/ form.ccs_value <= 0)

\* mutant: the batch is cleared whatever update_csv_in_github returned
pages_on_result_clear_always(ss, success) ==
  [ss EXCEPT !.protein_data = [set |-> TRUE, items |-> <<>>],
             !.show_full_form = ~success /\ ss.show_full_form]

\* mutant: the form is closed and the batch is kept
pages_on_result_keep_batch(ss, success) ==
  IF success THEN [ss EXCEPT !.show_full_form = FALSE] ELSE ss

\* pages/data_entry.py after update_csv_in_github returned
pages_on_result(ss, success) ==
  IF success
  THEN [ss EXCEPT !.protein_data = [set |-> TRUE, items |-> <<>>],
                  !.show_full_form = FALSE]
  ELSE ss

\* mutant: the DOI is dropped and the form stays open
root_on_result_keep_form(ss, success) ==
  IF success THEN [ss EXCEPT !.new_doi = Unset] ELSE ss

\* data_entry.py after update_csv_in_github returned
root_on_result(ss, success) ==
  IF success
  THEN [ss EXCEPT !.show_full_form = FALSE, !.new_doi = Unset]
  ELSE ss

on_result(a, ss, success) ==
  IF a = "pages" THEN pages_on_result(ss, success) ELSE root_on_result(ss, success)

\* mutant: the batch survives the logout
logout_keep_batch(ss) == [InitSession EXCEPT !.protein_data = ss.protein_data]

\* auth.py logout: every key is deleted, and the rerun of app.py sets its
\* initial keys again
logout(ss) == InitSession

\* ------------------------------------------------ update_csv_in_github
NoLocal == [new_data |-> <<>>, updated |-> <<>>, sha |-> NoFile]

\* mutant: only the first row of the batch is appended
utils_updated_df_first_row(existing_df, new_data) == concat(existing_df, SubSeq(new_data, 1, 1))

\* utils/github_utils.py: updated_df, from the first fetch
utils_updated_df(existing_df, new_data) == concat(existing_df, new_data)

\* utils/github_utils.py: where the commit goes after repo.get_contents of
\* the inner try (a bare except covers every failure)
utils_after_fetch(status) == IF status = "ok" THEN "u_update" ELSE "u_create"

\* utils/github_utils.py: after repo.update_file; "done" returns True
utils_after_update(status) == IF status = "ok" THEN "done" ELSE "u_create"

\* github_utils.py: updated_data, from the fetch whose sha is used
root_updated_data(existing_data, data_df) == concat(existing_data, data_df)

\* github_utils.py: after repo.get_contents and pd.read_csv; only a
\* GithubException with status 404 leads to create_file, "fail" returns False
root_after_fetch(status, blank) ==
  IF status = "ok" THEN (IF blank THEN "fail" ELSE "r_update")
  ELSE IF status = "not_found" THEN "r_create"
  ELSE "fail"

\* github_utils.py: after repo.update_file
root_after_update(status) ==
  IF status = "ok" THEN "done"
  ELSE IF status = "not_found" THEN "r_create"
  ELSE "fail"

\* mutant: the failure of create_file escapes and the call ends without a
\* result
after_create_raise(status) == IF status = "ok" THEN "done" ELSE "raise"

\* after repo.create_file, in both variants
after_create(status) == IF status = "ok" THEN "done" ELSE "fail"

\* the failure of a host call, "file not found" apart: a transport error,
\* a sha that is not the current one, a path that is taken
HostFailure(status) == {status} \ {"ok", "not_found"}

\* ---------------------------------------------------------------- Init
\* no function has been called alone
NoCall == [function |-> "none", args |-> <<>>, returned |-> FALSE]

OldRow ==
  ToCsvRow(merge(merge(get_paper_details("10.1000/a", "record").details,
                       protein_entry(BaseForm)),
                 [origin |-> <<"s0", 0, 1, 1>>]))
InitFiles == {NoFile, BlankFile, Table(<<OldRow>>)}

Init ==
  /\ app \in Apps
  /\ lib \in Libs
  /\ file \in InitFiles
  /\ session_state = [s \in Sessions |-> InitSession]
  /\ pc = [s \in Sessions |-> "idle"]
  /\ local = [s \in Sessions |-> NoLocal]
  /\ result = [s \in Sessions |-> "none"]
  /\ ncommit = [s \in Sessions |-> 0]
  /\ failed = [s \in Sessions |-> {}]
  /\ calls = [s \in Sessions |-> 0]
  /\ before = session_state
  /\ call = NoCall

\* ------------------------------------------------------- script runs
\* a run of the script that calls no update_csv_in_github: the messages of
\* the run before are gone
Run(s, ss) ==
  /\ session_state' = [session_state EXCEPT ![s] = ss]
  /\ result' = [result EXCEPT ![s] = "none"]
  /\ local' = [local EXCEPT ![s] = NoLocal]
  /\ failed' = [failed EXCEPT ![s] = {}]
  /\ calls' = [calls EXCEPT ![s] = 0]
  /\ before' = [before EXCEPT ![s] = ss]
  /\ UNCHANGED <<app, lib, file, pc, ncommit, call>>

TestConnection(s) ==
  /\ pc[s] = "idle"
  /\ \E auth_ok \in BOOLEAN, outcome \in RepoOutcomes, fault \in BOOLEAN :
       Run(s, test_connection(session_state[s], lib, file, auth_ok, outcome, fault))

CheckDOI(s) ==
  /\ pc[s] = "idle"
  /\ session_state[s].github_configured
  /\ \E doi \in Dois, answer \in CrossRefAnswers :
       Run(s, check_doi(app, session_state[s], doi, answer))

\* pages/data_entry.py, "Ready to Submit This Protein" with the widgets as
\* form holds them
SubmitForm(s, form) ==
  /\ app = "pages"
  /\ pc[s] = "idle"
  /\ session_state[s].github_configured
  /\ session_state[s].show_full_form
  /\ Len(session_state[s].protein_data.items) < MaxBatch
  /\ Run(s, submit_protein(session_state[s], form))

SubmitProtein(s) == \E form \in Forms : SubmitForm(s, form)

Logout(s) ==
  /\ pc[s] = "idle"
  /\ Run(s, logout(session_state[s]))

\* the run calls update_csv_in_github(repo, path, df), or fails before it
\* (authenticate_github or get_repository returned None)
Request(s, df, auth_ok, repo_ok) ==
  /\ ncommit' = [ncommit EXCEPT ![s] = @ + 1]
  /\ local' = [local EXCEPT ![s] = [NoLocal EXCEPT !.new_data = df]]
  /\ failed' = [failed EXCEPT ![s] = {}]
  /\ calls' = [calls EXCEPT ![s] = 0]
  /\ IF auth_ok /\ repo_ok
     THEN /\ pc' = [pc EXCEPT ![s] = IF lib = "utils" THEN "u_fetch1" ELSE "r_fetch"]
          /\ result' = [result EXCEPT ![s] = "none"]
     ELSE /\ pc' = pc
          /\ result' = [result EXCEPT ![s] = "fail"]
  /\ before' = [before EXCEPT ![s] = session_state[s]]
  /\ UNCHANGED <<app, lib, file, session_state, call>>

\* pages/data_entry.py, "Submit All Protein Data to GitHub"
SubmitAll(s) ==
  /\ app = "pages"
  /\ pc[s] = "idle"
  /\ session_state[s].github_configured
  /\ session_state[s].protein_data.items # <<>>
  /\ ncommit[s] < MaxCommits
  /\ \E auth_ok \in BOOLEAN, outcome \in RepoOutcomes :
       IF auth_ok /\ get_repository(lib, outcome) = "raise"
       THEN Run(s, session_state[s])
       ELSE Request(s, all_proteins(session_state[s], s, ncommit[s] + 1),
                    auth_ok, get_repository(lib, outcome) = "repo")

\* data_entry.py, "Submit Data" with the widgets as form holds them
SubmitDataForm(s, form) ==
  /\ app = "root"
  /\ pc[s] = "idle"
  /\ session_state[s].github_configured
  /\ session_state[s].show_full_form
  /\ ncommit[s] < MaxCommits
  /\ \E auth_ok \in BOOLEAN, outcome \in RepoOutcomes :
       IF required_fields_ok(form) /\ ~(auth_ok /\ get_repository(lib, outcome) = "raise")
       THEN Request(s, form_data(session_state[s], s, ncommit[s] + 1, form),
                    auth_ok, get_repository(lib, outcome) = "repo")
       ELSE Run(s, session_state[s])

SubmitData(s) == \E form \in RootForms : SubmitDataForm(s, form)

\* ------------------------------------------------------- commit steps
\* update_csv_in_github goes on to its next host call, or returns
Goto(s, next) ==
  /\ calls' = [calls EXCEPT ![s] = @ + 1]
  /\ IF next \in {"done", "fail"}
     THEN /\ pc' = [pc EXCEPT ![s] = "idle"]
          /\ result' = [result EXCEPT ![s] = IF next = "done" THEN "ok" ELSE "fail"]
          /\ session_state' = [session_state EXCEPT ![s] = on_result(app, @, next = "done")]
     ELSE /\ pc' = [pc EXCEPT ![s] = next]
          /\ UNCHANGED <<result, session_state>>
  /\ UNCHANGED <<app, lib, ncommit, before, call>>

\* utils: existing_df = get_existing_data(repo, csv_path); updated_df
UtilsFetch1(s) ==
  /\ pc[s] = "u_fetch1"
  /\ \E fault \in BOOLEAN :
       /\ local' = [local EXCEPT ![s].updated =
                      utils_updated_df(utils_get_existing_data(file, fault).df, local[s].new_data)]
       /\ failed' = [failed EXCEPT ![s] = @ \cup (IF fault THEN {"error"} ELSE {})]
       /\ Goto(s, "u_fetch2")
       /\ file' = file

\* utils: contents = repo.get_contents(csv_path)
UtilsFetch2(s) ==
  /\ pc[s] = "u_fetch2"
  /\ \E fault \in BOOLEAN :
       LET r == get_contents(file, fault)
       IN /\ local' = [local EXCEPT ![s].sha = r.content]
          /\ failed' = [failed EXCEPT ![s] = @ \cup HostFailure(r.status)]
          /\ Goto(s, utils_after_fetch(r.status))
          /\ file' = file

\* utils: repo.update_file(..., sha=contents.sha)
UtilsUpdate(s) ==
  /\ pc[s] = "u_update"
  /\ \E fault \in BOOLEAN :
       LET r == update_file(file, to_csv(local[s].updated), local[s].sha, fault)
       IN /\ file' = r.file
          /\ failed' = [failed EXCEPT ![s] = @ \cup HostFailure(r.status)]
          /\ Goto(s, utils_after_update(r.status))
          /\ local' = local

\* utils: repo.create_file(...) of the bare except
UtilsCreate(s) ==
  /\ pc[s] = "u_create"
  /\ \E fault \in BOOLEAN :
       LET r == create_file(file, to_csv(local[s].updated), fault)
       IN /\ file' = r.file
          /\ failed' = [failed EXCEPT ![s] = @ \cup HostFailure(r.status)]
          /\ Goto(s, after_create(r.status))
          /\ local' = local

\* root: contents = repo.get_contents(file_path); existing_data; updated_data
RootFetch(s) ==
  /\ pc[s] = "r_fetch"
  /\ \E fault \in BOOLEAN :
       LET r == get_contents(file, fault)
       IN /\ local' = [local EXCEPT
                         ![s].sha = r.content,
                         ![s].updated =
                            IF r.status = "ok" /\ ~r.content.blank
                            THEN root_updated_data(read_csv(r.content), local[s].new_data)
                            ELSE <<>>]
          /\ failed' = [failed EXCEPT ![s] =
                           @ \cup HostFailure(r.status) \cup (IF r.content.blank THEN {"parse"} ELSE {})]
          /\ Goto(s, root_after_fetch(r.status, r.content.blank))
          /\ file' = file

\* root: repo.update_file(..., sha=contents.sha)
RootUpdate(s) ==
  /\ pc[s] = "r_update"
  /\ \E fault \in BOOLEAN :
       LET r == update_file(file, to_csv(local[s].updated), local[s].sha, fault)
       IN /\ file' = r.file
          /\ failed' = [failed EXCEPT ![s] = @ \cup HostFailure(r.status)]
          /\ Goto(s, root_after_update(r.status))
          /\ local' = local

\* root: repo.create_file(..., content=data_df.to_csv(index=False))
RootCreate(s) ==
  /\ pc[s] = "r_create"
  /\ \E fault \in BOOLEAN :
       LET r == create_file(file, to_csv(local[s].new_data), fault)
       IN /\ file' = r.file
          /\ failed' = [failed EXCEPT ![s] = @ \cup HostFailure(r.status)]
          /\ Goto(s, after_create(r.status))
          /\ local' = local

CommitStep(s) ==
  \/ UtilsFetch1(s)
  \/ UtilsFetch2(s)
  \/ UtilsUpdate(s)
  \/ UtilsCreate(s)
  \/ RootFetch(s)
  \/ RootUpdate(s)
  \/ RootCreate(s)

\* --------------------------------------------------- specifications
\* Spec: one browser session, from the first run of the script on: every
\* button of the page, and the host calls of its commits.
Next ==
  \E s \in {"s1"} :
    \/ TestConnection(s)
    \/ CheckDOI(s)
    \/ SubmitProtein(s)
    \/ SubmitAll(s)
    \/ SubmitData(s)
    \/ Logout(s)
    \/ CommitStep(s)

Spec == Init /\ [][Next]_vars

\* CommitSpec: every session stands before its commit request (connection
\* tested while the host failed, DOI checked, batch entered) and the host
\* calls of the sessions' commits interleave.
ReadyBatches ==
  {<<protein_entry(BaseForm)>>,
   <<protein_entry(BaseForm), protein_entry([BaseForm EXCEPT !.protein_name = ""])>>}

ReadySession(a, l, batch) ==
  LET connected == test_connection(InitSession, l, NoFile, TRUE, "ok", TRUE)
  IN IF a = "pages"
     THEN [pages_check_doi(connected, "10.1000/b", "record") EXCEPT !.protein_data.items = batch]
     ELSE root_check_doi(connected, "10.1000/b")

CommitInit ==
  /\ app \in Apps
  /\ lib \in Libs
  /\ file \in InitFiles
  /\ \E batch \in [Sessions -> ReadyBatches] :
       session_state =
         [s \in Sessions |->
            ReadySession(app, lib, batch[s])]
  /\ pc = [s \in Sessions |-> "idle"]
  /\ local = [s \in Sessions |-> NoLocal]
  /\ result = [s \in Sessions |-> "none"]
  /\ ncommit = [s \in Sessions |-> 0]
  /\ failed = [s \in Sessions |-> {}]
  /\ calls = [s \in Sessions |-> 0]
  /\ before = session_state
  /\ call = NoCall

CommitNext ==
  \E s \in Sessions :
    \/ SubmitAll(s)
    \/ SubmitData(s)
    \/ CommitStep(s)

CommitSpec == CommitInit /\ [][CommitNext]_vars

\* EntrySpec: one session whose connection test has loaded the table, with
\* every form a user may leave, up to the call of update_csv_in_github (the
\* host calls of the commit are the matter of Spec and CommitSpec).
EnterProtein(s) == \E form \in AllForms : SubmitForm(s, form)

EnterData(s) == \E form \in AllRootForms : SubmitDataForm(s, form)

EntryInit ==
  /\ app \in Apps
  /\ lib \in Libs
  /\ file \in InitFiles
  /\ session_state =
       [s \in Sessions |->
          IF s = "s1" THEN test_connection(InitSession, lib, file, TRUE, "ok", FALSE)
          ELSE InitSession]
  /\ pc = [s \in Sessions |-> "idle"]
  /\ local = [s \in Sessions |-> NoLocal]
  /\ result = [s \in Sessions |-> "none"]
  /\ ncommit = [s \in Sessions |-> 0]
  /\ failed = [s \in Sessions |-> {}]
  /\ calls = [s \in Sessions |-> 0]
  /\ before = session_state
  /\ call = NoCall

EntryNext ==
  \E s \in {"s1"} :
    \/ CheckDOI(s)
    \/ EnterProtein(s)
    \/ SubmitAll(s)
    \/ EnterData(s)

EntrySpec == EntryInit /\ [][EntryNext]_vars

\* FunctionSpec: the functions of the page and of github_utils that compute
\* a value from their arguments, each called alone on every argument of a
\* bounded set.
\* the tables check_doi_exists is called on: None, and the DataFrames of up
\* to MaxRows rows
SnapshotRows ==
  {[doi |-> d, protein_name |-> n] : d \in ValidDois \cup {NaN}, n \in {"A", "B"}}
Snapshots ==
  {NoData} \cup
  {[set |-> TRUE, rows |-> rows] :
     rows \in UNION {[1..n -> SnapshotRows] : n \in 0..MaxRows}}
\* a file that holds the header line and no row
HeaderOnly == Table(<<>>)

ValidateDoi ==
  \E doi \in AllDois :
    /\ call' = [function |-> "validate_doi",
                args |-> [doi |-> doi],
                returned |-> validate_doi(doi)]
    /\ UNCHANGED <<app, lib, file, session_state, pc, local, result, ncommit,
                   failed, calls, before>>

\* the duplicate check of "Check DOI": check_doi_exists, and the rows the
\* page shows when it returned True
CheckDoiExists ==
  \E existing_data \in Snapshots, doi \in Dois :
    /\ call' = [function |-> "check_doi_exists",
                args |-> [existing_data |-> existing_data, doi |-> doi],
                returned |->
                  [exists |-> check_doi_exists(existing_data, doi),
                   rows |-> IF check_doi_exists(existing_data, doi)
                            THEN matching_rows(existing_data, doi)
                            ELSE <<>>]]
    /\ UNCHANGED <<app, lib, file, session_state, pc, local, result, ncommit,
                   failed, calls, before>>

\* get_existing_data(repo, csv_path) of the deployed github_utils on the
\* file of the host; fault: the host fails the request (unreachable, token
\* rejected, server error)
GetExistingData ==
  \E fault \in BOOLEAN :
    /\ call' = [function |-> "get_existing_data",
                args |-> [file |-> file, fault |-> fault],
                returned |-> get_existing_data(lib, file, fault)]
    /\ UNCHANGED <<app, lib, file, session_state, pc, local, result, ncommit,
                   failed, calls, before>>

FunctionInit ==
  /\ app \in Apps
  /\ lib \in Libs
  /\ file \in InitFiles \cup {HeaderOnly}
  /\ session_state = [s \in Sessions |-> InitSession]
  /\ pc = [s \in Sessions |-> "idle"]
  /\ local = [s \in Sessions |-> NoLocal]
  /\ result = [s \in Sessions |-> "none"]
  /\ ncommit = [s \in Sessions |-> 0]
  /\ failed = [s \in Sessions |-> {}]
  /\ calls = [s \in Sessions |-> 0]
  /\ before = session_state
  /\ call = NoCall

FunctionNext ==
  \/ ValidateDoi
  \/ CheckDoiExists
  \/ GetExistingData

FunctionSpec == FunctionInit /\ [][FunctionNext]_vars

\* a running update_csv_in_github goes on: each of its host calls returns
FairCommitSpec == CommitSpec /\ \A s \in Sessions : WF_vars(CommitStep(s))

\* ------------------------------------------------------------- claims
\* the rows of the file that commit request n of session s handed over
RowsOf(s, n) == {j \in 1..Len(file.rows) : file.rows[j].origin[1] = s /\ file.rows[j].origin[2] = n}

\* every row of df is in the file exactly once
InFileOnce(df) ==
  \A i \in 1..Len(df) :
    Cardinality({j \in 1..Len(file.rows) : file.rows[j].origin = df[i].origin}) = 1

\* C1: the persisted table never holds a part of a batch: of every commit
\* request of k rows, the file holds all k rows or none of them.
C1_NoPartialBatch ==
  \A j \in 1..Len(file.rows) :
    LET o == file.rows[j].origin
    IN \A i \in 1..o[4] :
         \E q \in 1..Len(file.rows) : file.rows[q].origin = <<o[1], o[2], i, o[4]>>

\* a batch of two rows is in the file beside older rows, and a commit of
\* another session has failed
C1_Witness ==
  \E s \in Sessions, u \in Sessions :
    /\ result[s] = "ok" /\ Len(local[s].new_data) = 2 /\ Cardinality(RowsOf(s, ncommit[s])) = 2
    /\ Len(file.rows) > 2
    /\ result[u] = "fail" /\ calls[u] > 0

\* C2: a commit that returns success has appended its k rows, in their
\* order, to the n rows the file held, which are unchanged: whatever the
\* host calls inside the commit returned.
C2_AppendOnly ==
  [][\A s \in Sessions :
       (pc[s] # "idle" /\ result'[s] = "ok")
         => file'.rows = file.rows \o to_csv(local[s].new_data).rows]_vars

\* C3: the rows of every commit that returned success are in the file
\* exactly once, in every later state, however the host calls of the
\* sessions interleave (checked here on the runs in which no host call
\* failed in transport).
C3_SuccessfulRowsKept ==
  (\A u \in Sessions : "error" \notin failed[u])
    => \A s \in Sessions : result[s] = "ok" => InFileOnce(local[s].new_data)

\* C4: when two sessions have each committed a batch and no host call
\* failed in transport, both commits have returned success and the file
\* holds the rows of both.
C4_BothSucceed ==
  (\A s \in Sessions : pc[s] = "idle" /\ calls[s] > 0 /\ failed[s] \subseteq {"conflict", "exists"})
    => \A s \in Sessions : result[s] = "ok" /\ InFileOnce(local[s].new_data)

\* C5: a commit whose conditioned write met a sha that was no longer the
\* current one (another writer came between) has fetched again, retried and
\* returned success, with its rows in the file.
C5_RetryAfterConflict ==
  \A s \in Sessions :
    (pc[s] = "idle" /\ "conflict" \in failed[s] /\ "error" \notin failed[s])
      => result[s] = "ok" /\ InFileOnce(local[s].new_data)

\* C6: every commit that has started returns: success or an explicit
\* failure, after at most four host calls.
C6_CommitReturns ==
  \A s \in Sessions :
    (pc[s] # "idle") ~> (pc[s] = "idle" /\ result[s] \in {"ok", "fail"} /\ calls[s] <= 4)

\* a commit has returned a failure after four host calls
C6_Witness == \E s \in Sessions : pc[s] = "idle" /\ result[s] = "fail" /\ calls[s] = 4

\* C7: a commit never returns success after one of its host calls failed
\* with anything but "file not found".
C7_NoSuccessAfterFailure ==
  \A s \in Sessions : result[s] = "ok" => failed[s] \cap {"error", "conflict", "exists"} = {}

\* C8: when a commit has failed (in the host calls, or before them when the
\* authentication or the repository failed) the session state, batch and
\* paper fields with it, is what it was at the commit request.
C8_BatchKeptOnFailure ==
  \A s \in Sessions : result[s] = "fail" => session_state[s] = before[s]

\* a commit of a batch of two failed on a conflict with another writer
C8_Witness ==
  \E s \in Sessions :
    /\ result[s] = "fail" /\ "conflict" \in failed[s]
    /\ Len(session_state[s].protein_data.items) = 2

\* C9: a commit that returns success leaves the batch empty and the form
\* closed; the form opens only by a DOI check that passes, with an empty
\* batch; records are entered and commits requested only with the form open.
C9_NoSecondCommit ==
  [][\A s \in Sessions :
       LET ss == session_state[s]
           ss2 == session_state'[s]
       IN /\ (pc[s] # "idle" /\ result'[s] = "ok")
               => (~ss2.show_full_form /\ ss2.protein_data.items = <<>>)
          /\ (~ss.show_full_form /\ ss2.show_full_form)
               => /\ pc[s] = "idle" /\ pc'[s] = "idle"
                  /\ validate_doi(ss2.new_doi)
                  /\ ~check_doi_exists(ss.existing_data, ss2.new_doi)
                  /\ ss2.protein_data.items = <<>>
          /\ (Len(ss2.protein_data.items) > Len(ss.protein_data.items))
               => ss.show_full_form
          /\ (pc[s] = "idle" /\ pc'[s] # "idle")
               => ss.show_full_form]_vars

\* a commit of a batch of two has returned success
C9_Witness ==
  \E s \in Sessions :
    /\ result[s] = "ok" /\ Len(local[s].new_data) = 2
    /\ ~session_state[s].show_full_form

\* C10: a run of the script that requests no commit (DOI check, record
\* submission, connection test, logout) leaves the file as it is, and a
\* logout leaves neither batch nor paper fields.
C10_NoWriteBeforeCommit ==
  [][/\ ((\A s \in Sessions : pc[s] = "idle") /\ ncommit' = ncommit) => file' = file
     /\ \A s \in Sessions :
          Logout(s) => /\ session_state'[s].protein_data.items = <<>>
                       /\ session_state'[s].paper_details.doi = Unset
                       /\ session_state'[s].new_doi = Unset
                       /\ ~session_state'[s].show_full_form]_vars

\* two records are in the batch, no commit was requested, the file is as
\* it was
C10_Witness ==
  \E s \in Sessions :
    /\ Len(session_state[s].protein_data.items) = 2
    /\ ncommit[s] = 0
    /\ file \in InitFiles

\* C11: a DOI check whose DOI is in the table the session has loaded opens
\* the entry form for that DOI (the finding is a warning only), so that a
\* further record can be entered for it.
C11_ExistingDoiAdvances ==
  \A s \in Sessions, doi \in ValidDois :
    (session_state[s].github_configured
       /\ check_doi_exists(session_state[s].existing_data, doi))
      => LET checked == check_doi(app, session_state[s], doi, "record")
         IN checked.show_full_form /\ checked.new_doi = doi

\* C12: when the file holds rows of a DOI that the session itself has
\* committed, a DOI check of the session finds the DOI in the database.
C12_CommittedDoiFound ==
  \A s \in Sessions, doi \in ValidDois :
    (/\ pc[s] = "idle"
     /\ session_state[s].github_configured
     /\ \E j \in 1..Len(file.rows) : file.rows[j].doi = doi /\ file.rows[j].origin[1] = s)
      => check_doi_exists(session_state[s].existing_data, doi)

\* C13: a DOI check with a DOI of invalid format leaves the session state
\* as it is, and whenever the entry form is open the DOI of the session is
\* of valid format.
C13_InvalidDoiRejected ==
  \A s \in Sessions :
    /\ \A doi \in Dois :
         (session_state[s].github_configured /\ ~validate_doi(doi))
           => \A answer \in CrossRefAnswers :
                check_doi(app, session_state[s], doi, answer) = session_state[s]
    /\ session_state[s].show_full_form => validate_doi(session_state[s].new_doi)

\* the form is open with a record in the batch (pages), or open for a DOI
\* (root), and there is a DOI of invalid format to submit
C13_Witness ==
  \E s \in Sessions :
    /\ session_state[s].show_full_form
    /\ app = "pages" => Len(session_state[s].protein_data.items) = 1
    /\ session_state[s].new_doi \in ValidDois
    /\ \E doi \in Dois : ~validate_doi(doi)

\* C14: a submission that fails validation (a DOI of invalid format, an empty
\* required field) writes nothing to the file, adds nothing to the batch and
\* leaves the session state as it is.
C14_ValidationErrorLocal ==
  [][\A s \in Sessions :
       /\ \A form \in AllForms :
            (SubmitForm(s, form) /\ form.protein_name = "")
              => (session_state'[s] = session_state[s] /\ file' = file)
       /\ \A form \in AllRootForms :
            (SubmitDataForm(s, form) /\ ~required_fields_ok(form))
              => (session_state'[s] = session_state[s] /\ file' = file /\ pc'[s] = "idle")
       /\ \A doi \in Dois :
            (CheckDOI(s) /\ ~validate_doi(doi)
               /\ \E answer \in CrossRefAnswers :
                    session_state'[s] = check_doi(app, session_state[s], doi, answer))
              => (session_state'[s] = session_state[s] /\ file' = file)]_vars

\* C15: the batch holds at most one record of a protein_name.
C15_OneRecordPerName ==
  \A s \in Sessions :
    LET batch == session_state[s].protein_data.items
    IN \A i, j \in 1..Len(batch) :
         batch[i].protein_name = batch[j].protein_name => i = j

\* the number of (charge_state, ccs_value) pairs of the records of a batch
PairCount(batch) ==
  Cardinality({p \in (1..Len(batch)) \X (1..Len(BaseForm.ccs_widgets)) :
                 p[2] <= Len(batch[p[1]].ccs_data.items)})

\* C16: the rows a commit request of the protein page hands to
\* update_csv_in_github are as many as the (charge_state, ccs_value) pairs of
\* the records of the batch.
C16_OneRowPerPair ==
  \A s \in Sessions :
    (app = "pages" /\ pc[s] # "idle")
      => Len(local[s].new_data) = PairCount(before[s].protein_data.items)

\* protein_name without its leading and trailing blanks
Trimmed(protein_name) == IF protein_name = " " THEN "" ELSE protein_name

\* C17: every record of the batch has a protein_name that is not empty
\* after trimming.
C17_NameNotEmpty ==
  \A s \in Sessions :
    LET batch == session_state[s].protein_data.items
    IN \A i \in 1..Len(batch) : Trimmed(batch[i].protein_name) # ""

\* C18: the record a submission of the protein form adds to the batch has
\* as many (charge_state, ccs_value) pairs as the form declares in
\* num_ccs_values.
C18_DeclaredPairCount ==
  [][\A s \in Sessions, form \in AllForms :
       SubmitForm(s, form)
         => LET batch == session_state'[s].protein_data.items
            IN /\ Len(batch) = Len(session_state[s].protein_data.items) + 1
               /\ Len(batch[Len(batch)].ccs_data.items) = form.num_ccs_values]_vars

\* the batch holds a record of two pairs and a record of one pair
C18_Witness ==
  \E s \in Sessions :
    LET batch == session_state[s].protein_data.items
    IN /\ Len(batch) = 2
       /\ Len(batch[1].ccs_data.items) = 2
       /\ Len(batch[2].ccs_data.items) = 1

\* C19: a record of the batch whose subunit_count is not greater than 1 has
\* no oligomer_type.
C19_OligomerOnlyForSubunits ==
  \A s \in Sessions :
    LET batch == session_state[s].protein_data.items
    IN \A i \in 1..Len(batch) :
         batch[i].subunit_count <= 1 => batch[i].oligomer_type = NaN

\* the selections that stand for a value to be typed
Sentinels == {"Other", "Other (enter)"}
CategoricalColumns == {"instrument", "ims_type", "drift_gas", "buffer_gas", "method"}
NoSentinel(r) == \A k \in DOMAIN r \cap CategoricalColumns : r[k] \notin Sentinels

\* C20: no record of the batch, no row handed to update_csv_in_github and
\* no row of the file has a categorical field that is a sentinel selection.
C20_NoSentinelStored ==
  /\ \A s \in Sessions :
       /\ \A i \in 1..Len(session_state[s].protein_data.items) :
            NoSentinel(session_state[s].protein_data.items[i])
       /\ \A i \in 1..Len(local[s].new_data) : NoSentinel(local[s].new_data[i])
  /\ \A j \in 1..Len(file.rows) : NoSentinel(file.rows[j])

\* C21: the record a submission of the protein form adds to the batch has
\* no sequence_mass (measured_mass) when the number entered is not greater
\* than zero, and the number entered otherwise.
C21_MassNullUnlessPositive ==
  [][\A s \in Sessions, form \in AllForms :
       SubmitForm(s, form)
         => LET batch == session_state'[s].protein_data.items
                entry == batch[Len(batch)]
            IN /\ form.sequence_mass_value <= 0 => ~entry.sequence_mass.set
               /\ form.sequence_mass_value > 0
                    => (entry.sequence_mass.set
                          /\ entry.sequence_mass.value = form.sequence_mass_value)
               /\ form.measured_mass_value <= 0 => ~entry.measured_mass.set
               /\ form.measured_mass_value > 0
                    => (entry.measured_mass.set
                          /\ entry.measured_mass.value = form.measured_mass_value)]_vars

\* the batch holds a record with a sequence mass and a record without
\* masses (both numbers were left at zero)
C21_Witness ==
  \E s \in Sessions :
    LET batch == session_state[s].protein_data.items
    IN /\ Len(batch) = 2
       /\ batch[1].sequence_mass.set /\ batch[1].sequence_mass.value > 0
       /\ ~batch[2].sequence_mass.set /\ ~batch[2].measured_mass.set

\* the rows of the snapshot that have the DOI, by their place in it
RowsWithDoi(existing_data, doi) ==
  {i \in 1..Len(existing_data.rows) : existing_data.rows[i].doi = doi}

\* C22: the duplicate check reports that the paper exists exactly when a
\* row of the snapshot has the DOI, and the rows shown are then the rows of
\* the snapshot with that DOI, each once and in their order; on a missing
\* or empty snapshot and on a DOI no row has, it reports that the paper
\* does not exist and shows no row.
C22_ExistsIffRowHasDoi ==
  call.function = "check_doi_exists"
    => LET hits == RowsWithDoi(call.args.existing_data, call.args.doi)
           shown == call.returned.rows
       IN /\ call.returned.exists <=> (call.args.existing_data.set /\ hits # {})
          /\ Len(shown) = Cardinality(hits)
          /\ \A i \in hits :
               shown[Cardinality({h \in hits : h <= i})] = call.args.existing_data.rows[i]

\* the check found a paper that only the second of two rows has
C22_Witness ==
  /\ call.function = "check_doi_exists"
  /\ call.returned.exists
  /\ Len(call.args.existing_data.rows) = 2
  /\ call.args.existing_data.rows[1].doi # call.args.doi
  /\ Len(call.returned.rows) = 1

\* the characters the suffix of a DOI may hold: letters of either case,
\* digits, and - . _ ; ( ) / :
AllowedChars == {"-", ".", "_", ";", "(", ")", "/", ":"} \cup Letters \cup Digits
\* "10.", then four to nine digits, then "/", then one or more allowed
\* characters, and nothing else
WellFormedDoi(cs) ==
  \E k \in 4..9 :
    /\ Len(cs) >= 3 + k + 2
    /\ cs[1] = "1" /\ cs[2] = "0" /\ cs[3] = "."
    /\ \A i \in 4..(3 + k) : cs[i] \in Digits
    /\ cs[4 + k] = "/"
    /\ \A i \in (5 + k)..Len(cs) : cs[i] \in AllowedChars

\* C23: validate_doi returns true for exactly the strings that are "10.",
\* four to nine digits, "/", and one or more allowed characters, and false
\* for every other string.
C23_ValidIffWellFormed ==
  call.function = "validate_doi"
    => (call.returned <=> WellFormedDoi(Chars(call.args.doi)))

\* C24: a commit goes on to create_file only from a host call that reported
\* that the file does not exist: the file was not on the host, and the call
\* added no failure (conflict, transport, permission) to those of the
\* commit.
C24_CreateOnlyWhenMissing ==
  [][\A s \in Sessions :
       (pc[s] \notin {"u_create", "r_create"} /\ pc'[s] \in {"u_create", "r_create"})
         => (~file.exists /\ failed'[s] = failed[s])]_vars

\* C25: get_existing_data returns an empty table only when the file is not
\* on the host or holds no row, and the host has answered; when the host
\* fails the request the outcome is an error, not a table.
C25_FetchFailureIsNotEmptyTable ==
  call.function = "get_existing_data"
    => /\ call.args.fault => ~call.returned.ok
       /\ (call.returned.ok /\ call.returned.df = <<>>)
            => /\ ~call.args.fault
               /\ \/ ~call.args.file.exists
                  \/ call.args.file.blank
                  \/ call.args.file.rows = <<>>

\* C26: whenever the entry form of a session is open, new_doi is set, and
\* with pages/data_entry.py paper_details and the list protein_data are set
\* too; and when update_csv_in_github has returned success the form is
\* closed.
C26_OpenFormHasPayload ==
  \A s \in Sessions :
    /\ session_state[s].show_full_form
         => /\ session_state[s].new_doi # Unset
            /\ app = "pages"
                 => /\ session_state[s].paper_details.doi # Unset
                    /\ session_state[s].protein_data.set
    /\ result[s] = "ok" => ~session_state[s].show_full_form

\* a session has the form open again after a commit of its rows
C26_Witness ==
  \E s \in Sessions :
    /\ session_state[s].show_full_form
    /\ RowsOf(s, 1) # {}

\* the paper of a session: the fields a DOI check sets
PaperOf(ss) == <<ss.new_doi, ss.paper_details>>

\* C27: the records of a batch were entered under the paper the session has
\* now.  A step that changes the paper of a session leaves its batch empty;
\* a step that adds a record to the batch leaves the paper as it is; a DOI
\* check of a DOI that fails the validation or is in the table already
\* changes neither the paper nor the batch; and every row a commit request
\* hands over carries the DOI of that paper.
C27_BatchBelongsToPaper ==
  /\ [](\A s \in Sessions, doi \in Dois :
          LET ss == session_state[s]
          IN (~validate_doi(doi) \/ check_doi_exists(ss.existing_data, doi))
               => \A answer \in CrossRefAnswers : check_doi(app, ss, doi, answer) = ss)
  /\ [][\A s \in Sessions :
          LET ss == session_state[s]
              batch == ss.protein_data.items
              batch_after == session_state'[s].protein_data.items
          IN /\ PaperOf(session_state'[s]) # PaperOf(ss) => batch_after = <<>>
             /\ Len(batch_after) > Len(batch)
                  => /\ PaperOf(session_state'[s]) = PaperOf(ss)
                     /\ SubSeq(batch_after, 1, Len(batch)) = batch
             /\ (app = "pages" /\ ncommit'[s] > ncommit[s])
                  => /\ Len(local'[s].new_data) = Len(batch)
                     /\ \A i \in 1..Len(batch) :
                          /\ local'[s].new_data[i].doi = ss.new_doi
                          /\ local'[s].new_data[i].doi = ss.paper_details.doi]_vars

\* a commit request has handed over the two records of a batch, entered
\* under a paper that a DOI check has found new while a duplicate was in
\* the table
C27_Witness ==
  \E s \in Sessions :
    /\ Len(local[s].new_data) = 2
    /\ session_state[s].existing_data.rows # <<>>
    /\ check_doi_exists(session_state[s].existing_data, "10.1000/a")
    /\ local[s].new_data[2].doi = "10.1000/b"

====
